---- MODULE Spec2Model ----
(***************************************************************************)
(* pytest-fixtures-fixtures: parametrize_from_fixture, the fixtures        *)
(* directory resolution and the four per-format readers of                 *)
(* src/pytest_fixtures_fixtures/parametrize.py.                            *)
(*                                                                         *)
(* Paths are sequences of components; an absolute path starts with the    *)
(* component "/".  A file name is a sequence of one-character strings, so  *)
(* that its extension is something the model computes.  Parsed values are  *)
(* pairs <<type, text>> so that the text 1 and the number 1 differ.        *)
(***************************************************************************)
EXTENDS Integers, Sequences, FiniteSets, TLC

VARIABLES cwd, environ, fs, yaml, last

vars == <<cwd, environ, fs, yaml, last>>

(***************************************************************************)
(* Python values                                                           *)
(***************************************************************************)
None == <<"NoneType", "None">>

Unset == <<"unset">>

ENV_VAR == "PYTEST_FIXTURES_FIXTURES_PATH_PARAMETRIZE"

(***************************************************************************)
(* pathlib                                                                 *)
(***************************************************************************)
IsAbsolute(p) == Len(p) > 0 /\ p[1] = "/"

\* Path.__truediv__: an absolute right operand replaces the left one
PathJoin(p, q) == IF IsAbsolute(q) THEN q ELSE p \o q

(***************************************************************************)
(* The directories of the model                                            *)
(***************************************************************************)
W1 == <<"/", "w1">>

W2 == <<"/", "w2">>

W3 == <<"/", "w3">>

WorkDirs == {W1, W2, W3}

CustomDir == <<"/", "tmp", "custom_fixtures">>

EnvDir == <<"/", "tmp", "env_fixtures">>

RelDir == <<"custom", "fixtures">>

FixturesDirArgs == {None, CustomDir, RelDir}

EnvValues == {EnvDir, RelDir}

(***************************************************************************)
(* _get_fixtures_path                                                      *)
(***************************************************************************)
Mut_get_fixtures_path_cached(fixtures_dir) == W1 \o <<"tests", "fixtures">>

_get_fixtures_path(fixtures_dir) == cwd \o <<"tests", "fixtures">>

(***************************************************************************)
(* Python dictionaries: insertion-ordered sequences of <<key, value>>     *)
(* pairs with distinct keys.  Keys are values too (a csv.DictReader row    *)
(* can carry the key None).                                                *)
(***************************************************************************)
Str(v) == <<"str", v[2]>>

DictKeys(d) == [i \in 1..Len(d) |-> d[i][1]]

KeySet(d) == {d[i][1] : i \in 1..Len(d)}

DictGet(d, k) == d[CHOOSE i \in 1..Len(d) : d[i][1] = k][2]

\* d[k] = v: an existing key keeps its position, a new key goes last
DictSet(d, k, v) ==
    IF k \in KeySet(d)
    THEN [i \in 1..Len(d) |-> IF d[i][1] = k THEN <<k, v>> ELSE d[i]]
    ELSE Append(d, <<k, v>>)

\* set(seq)
ToSet(seq) == {seq[i] : i \in 1..Len(seq)}

\* ",".join(fieldnames)
RECURSIVE JoinNames(_)
JoinNames(fieldnames) ==
    IF fieldnames = <<>> THEN ""
    ELSE IF Len(fieldnames) = 1 THEN fieldnames[1][2]
    ELSE fieldnames[1][2] \o "," \o JoinNames(Tail(fieldnames))

\* tuple(item.values()), cut or filled to the number of names
Mut_RowTuple_own_order(item, fieldnames) ==
    [i \in 1..Len(fieldnames) |-> IF i <= Len(item) THEN item[i][2] ELSE None]

\* tuple(item[field] for field in fieldnames)
RowTuple(item, fieldnames) ==
    [i \in 1..Len(fieldnames) |-> DictGet(item, fieldnames[i])]

(***************************************************************************)
(* The file system: fs maps each existing file to its content.  A file is *)
(* [dir, name]; a content gives what each parsing library makes of the     *)
(* file's text: csv.reader's rows, json.load's value, the lines seen by    *)
(* the JSON Lines loop and yaml.load's value.                              *)
(***************************************************************************)
FixturePath(fixtures_path, fixture_name) == [dir |-> fixtures_path, name |-> fixture_name]

\* open(file_path) finds the file
FileOpens(file_path) == file_path \in DOMAIN fs

\* a parsed JSON or YAML value that is a mapping, or one that is not
Mapping(d) == [isdict |-> TRUE, d |-> d]

NotMapping == [isdict |-> FALSE, d |-> <<>>]

\* a parsed document: a list of items, a value that is not a list, or a syntax error
ListDoc(items) == [kind |-> "list", items |-> items]

OtherDoc == [kind |-> "other", items |-> <<>>]

BadDoc == [kind |-> "error", items |-> <<>>]

\* one line of a JSON Lines file: blank, a JSON value, or malformed
BlankLine == [kind |-> "blank", item |-> NotMapping]

ValueLine(item) == [kind |-> "value", item |-> item]

BadLine == [kind |-> "error", item |-> NotMapping]

\* what csv.reader yields: the rows of cells, or csv.Error
CsvRows(rows) == [ok |-> TRUE, rows |-> rows]

BadCsv == [ok |-> FALSE, rows |-> <<>>]

(***************************************************************************)
(* Reader outcomes: the exception raised ("none" on return), the message   *)
(* of a ValueError raised by the reader itself, the file that message      *)
(* names, and the returned tuple.                                          *)
(***************************************************************************)
NoFile == [dir |-> <<>>, name |-> <<>>]

\* the file handles of a call: how many it opened, how many are still open
NoHandles == [opened |-> 0, left |-> 0]

Raise(exc, msg) == [exc |-> exc, msg |-> msg, file |-> NoFile, ret |-> <<>>, handles |-> NoHandles]

\* raise ValueError(f"... {file_path} ..."): every ValueError of a reader
DataError(file_path, msg) ==
    [exc |-> "ValueError", msg |-> msg, file |-> file_path, ret |-> <<>>, handles |-> NoHandles]

Return(ret) == [exc |-> "none", msg |-> "", file |-> NoFile, ret |-> ret, handles |-> NoHandles]

(***************************************************************************)
(* with open(file_path, encoding=encoding) as f: ...                       *)
(***************************************************************************)
\* open() returned a handle
Enter(h) == [opened |-> h.opened + 1, left |-> h.left + 1]

\* a handle closed only when the block ends without an exception
Mut_Leave_leaks_on_error(h, exc) ==
    IF exc = "none" THEN [opened |-> h.opened, left |-> h.left - 1] ELSE h

\* the with block is left, by its end, by a return or by the exception exc:
\* __exit__ closes the handle
Leave(h, exc) == [opened |-> h.opened, left |-> h.left - 1]

\* the outcome r of a reader whose with block holds the statements that can
\* raise the exceptions of inblock
WithOpen(r, inblock) ==
    [r EXCEPT !.handles = Leave(Enter(@), IF r.exc \in inblock THEN r.exc ELSE "none")]

(***************************************************************************)
(* csv.DictReader                                                          *)
(***************************************************************************)
Min(a, b) == IF a < b THEN a ELSE b

\* dict(zip(fieldnames, row)), restricted to the first n pairs
RECURSIVE ZipDict(_, _, _)
ZipDict(fieldnames, row, n) ==
    IF n = 0 THEN <<>>
    ELSE DictSet(ZipDict(fieldnames, row, n - 1), fieldnames[n], <<"str", row[n]>>)

\* for key in fieldnames[lr:]: d[key] = restval, up to position n
RECURSIVE FillRest(_, _, _, _)
FillRest(d, fieldnames, lr, n) ==
    IF n <= lr THEN d
    ELSE DictSet(FillRest(d, fieldnames, lr, n - 1), fieldnames[n], None)

\* DictReader.__next__ for one non-blank row
DictReaderRow(fieldnames, row) ==
    LET lf == Len(fieldnames)
        lr == Len(row)
        d  == ZipDict(fieldnames, row, Min(lf, lr))
    IN  IF lf < lr THEN DictSet(d, None, <<"list", "restkey">>)
        ELSE IF lf > lr THEN FillRest(d, fieldnames, lr, lf)
        ELSE d

\* list(reader): blank rows are skipped
DictReaderRows(fieldnames, rawrows) ==
    LET kept == SelectSeq(rawrows, LAMBDA r : r # <<>>)
    IN  [i \in 1..Len(kept) |-> DictReaderRow(fieldnames, kept[i])]

(***************************************************************************)
(* _read_csv_for_parametrize                                               *)
(***************************************************************************)
Mut_read_csv_no_rows_check(file_path, encoding) ==
    IF ~FileOpens(file_path) THEN Raise("FileNotFoundError", "")
    ELSE WithOpen(
        LET view == fs[file_path].csv IN
        IF ~view.ok THEN Raise("csv.Error", "")
        ELSE IF view.rows = <<>> \/ view.rows[1] = <<>>
        THEN DataError(file_path, "has no headers")
        ELSE LET fieldnames == [i \in 1..Len(view.rows[1]) |-> <<"str", view.rows[1][i]>>]
                 rows == DictReaderRows(fieldnames, Tail(view.rows))
             IN  Return(<<JoinNames(fieldnames),
                          [i \in 1..Len(rows) |-> RowTuple(rows[i], fieldnames)]>>),
        {"csv.Error", "ValueError"})

_read_csv_for_parametrize(file_path, encoding) ==
    IF ~FileOpens(file_path) THEN Raise("FileNotFoundError", "")
    ELSE WithOpen(
        LET view == fs[file_path].csv IN
        IF ~view.ok THEN Raise("csv.Error", "")
        ELSE IF view.rows = <<>> \/ view.rows[1] = <<>>
        THEN DataError(file_path, "has no headers")
        ELSE LET fieldnames == [i \in 1..Len(view.rows[1]) |-> <<"str", view.rows[1][i]>>]
                 rows == DictReaderRows(fieldnames, Tail(view.rows))
             IN  IF rows = <<>> THEN DataError(file_path, "has no data rows")
                 ELSE Return(<<JoinNames(fieldnames),
                               [i \in 1..Len(rows) |-> RowTuple(rows[i], fieldnames)]>>),
        {"csv.Error", "ValueError"})

(***************************************************************************)
(* The conversion loop the JSON, JSON Lines and YAML readers share:        *)
(* names from the first record, then one tuple per record.                 *)
(***************************************************************************)
\* set(item.keys()) != set(fieldnames), negated
SameKeys(item, fieldnames) == KeySet(item) = ToSet(fieldnames)

FirstBad(data, fieldnames) ==
    CHOOSE i \in 1..Len(data) :
        /\ ~data[i].isdict \/ ~SameKeys(data[i].d, fieldnames)
        /\ \A j \in 1..(i - 1) : data[j].isdict /\ SameKeys(data[j].d, fieldnames)

\* the loop reading item.get(field) without comparing the key sets
Mut_ConvertRecords_fills_missing(file_path, data, notdict, allmsg) ==
    IF ~data[1].isdict THEN DataError(file_path, notdict)
    ELSE LET fieldnames == DictKeys(data[1].d)
             get(d, k) == IF k \in KeySet(d) THEN DictGet(d, k) ELSE None
         IN  IF \A i \in 1..Len(data) : data[i].isdict
             THEN Return(<<JoinNames(fieldnames),
                           [i \in 1..Len(data) |->
                               [j \in 1..Len(fieldnames) |-> get(data[i].d, fieldnames[j])]]>>)
             ELSE DataError(file_path, allmsg)

\* the loop passing over the later records that are not mappings
Mut_ConvertRecords_skips_others(file_path, data, notdict, allmsg) ==
    IF ~data[1].isdict THEN DataError(file_path, notdict)
    ELSE LET fieldnames == DictKeys(data[1].d)
             kept == SelectSeq(data, LAMBDA x : x.isdict)
         IN  IF \A i \in 1..Len(kept) : SameKeys(kept[i].d, fieldnames)
             THEN Return(<<JoinNames(fieldnames),
                           [i \in 1..Len(kept) |-> RowTuple(kept[i].d, fieldnames)]>>)
             ELSE DataError(file_path, "must have the same keys")

\* the loop stopping quietly at the first record it cannot take
Mut_ConvertRecords_partial(file_path, data, notdict, allmsg) ==
    IF ~data[1].isdict THEN DataError(file_path, notdict)
    ELSE LET fieldnames == DictKeys(data[1].d)
             good(i) == data[i].isdict /\ SameKeys(data[i].d, fieldnames)
             n == CHOOSE n \in 1..Len(data) :
                      /\ \A i \in 1..n : good(i)
                      /\ n < Len(data) => ~good(n + 1)
         IN  Return(<<JoinNames(fieldnames),
                      [i \in 1..n |-> RowTuple(data[i].d, fieldnames)]>>)

ConvertRecords(file_path, data, notdict, allmsg) ==
    IF ~data[1].isdict THEN DataError(file_path, notdict)
    ELSE LET fieldnames == DictKeys(data[1].d)
             good(i) == data[i].isdict /\ SameKeys(data[i].d, fieldnames)
         IN  IF \A i \in 1..Len(data) : good(i)
             THEN Return(<<JoinNames(fieldnames),
                           [i \in 1..Len(data) |-> RowTuple(data[i].d, fieldnames)]>>)
             ELSE IF ~data[FirstBad(data, fieldnames)].isdict
                  THEN DataError(file_path, allmsg)
                  ELSE DataError(file_path, "must have the same keys")

(***************************************************************************)
(* _read_json_for_parametrize                                              *)
(***************************************************************************)
_read_json_for_parametrize(file_path, encoding) ==
    IF ~FileOpens(file_path) THEN Raise("FileNotFoundError", "")
    ELSE WithOpen(
        LET data == fs[file_path].json IN
        IF data.kind = "error" THEN Raise("JSONDecodeError", "")
        ELSE IF data.kind # "list" THEN DataError(file_path, "must contain a list of objects")
        ELSE IF data.items = <<>> THEN DataError(file_path, "contains empty list")
        ELSE ConvertRecords(file_path, data.items, "must contain a list of dictionaries",
                            "All items must be dictionaries"),
        {"JSONDecodeError"})

(***************************************************************************)
(* _read_jsonl_for_parametrize                                             *)
(***************************************************************************)
\* the loop ending at the first blank line
Mut_read_jsonl_stops_at_blank(file_path, encoding) ==
    IF ~FileOpens(file_path) THEN Raise("FileNotFoundError", "")
    ELSE WithOpen(
        LET lines == fs[file_path].jsonl
                 stop  == IF \E i \in 1..Len(lines) : lines[i].kind = "blank"
                          THEN CHOOSE i \in 1..Len(lines) :
                                   /\ lines[i].kind = "blank"
                                   /\ \A j \in 1..(i - 1) : lines[j].kind # "blank"
                          ELSE Len(lines) + 1
                 clean == SubSeq(lines, 1, stop - 1)
                 data  == [i \in 1..Len(clean) |-> clean[i].item]
             IN  IF \E i \in 1..Len(clean) : clean[i].kind = "error"
                 THEN Raise("JSONDecodeError", "")
                 ELSE IF data = <<>> THEN DataError(file_path, "contains no data")
                 ELSE ConvertRecords(file_path, data, "must contain dictionaries",
                                     "All items must be dictionaries"),
        {"JSONDecodeError"})

\* a reader that kept the lines of its previous call of the same file and
\* finds them used up
Mut_read_jsonl_used_up(file_path, encoding) ==
    IF ~FileOpens(file_path) THEN Raise("FileNotFoundError", "")
    ELSE WithOpen(
        IF last.op \in {"read", "reread"} /\ last.reader = "jsonl" /\ last.file_path = file_path
        THEN DataError(file_path, "contains no data")
        ELSE LET lines == fs[file_path].jsonl
                 clean == SelectSeq(lines, LAMBDA l : l.kind # "blank")
                 data  == [i \in 1..Len(clean) |-> clean[i].item]
             IN  IF \E i \in 1..Len(clean) : clean[i].kind = "error"
                 THEN Raise("JSONDecodeError", "")
                 ELSE IF data = <<>> THEN DataError(file_path, "contains no data")
                 ELSE ConvertRecords(file_path, data, "must contain dictionaries",
                                     "All items must be dictionaries"),
        {"JSONDecodeError"})

_read_jsonl_for_parametrize(file_path, encoding) ==
    IF ~FileOpens(file_path) THEN Raise("FileNotFoundError", "")
    ELSE WithOpen(
        LET lines == fs[file_path].jsonl
                 clean == SelectSeq(lines, LAMBDA l : l.kind # "blank")
                 data  == [i \in 1..Len(clean) |-> clean[i].item]
             IN  IF \E i \in 1..Len(clean) : clean[i].kind = "error"
                 THEN Raise("JSONDecodeError", "")
                 ELSE IF data = <<>> THEN DataError(file_path, "contains no data")
                 ELSE ConvertRecords(file_path, data, "must contain dictionaries",
                                     "All items must be dictionaries"),
        {"JSONDecodeError"})

(***************************************************************************)
(* _read_yaml_for_parametrize                                              *)
(***************************************************************************)
PYYAML_REQUIRED == "PyYAML is required for YAML fixtures. Install it: https://pypi.org/project/PyYAML/"

\* the check for the library made only once the file is open
Mut_read_yaml_opens_first(file_path, encoding) ==
    IF ~FileOpens(file_path) THEN Raise("FileNotFoundError", "")
    ELSE WithOpen(
        IF ~yaml THEN Raise("ImportError", PYYAML_REQUIRED)
        ELSE LET data == fs[file_path].yaml IN
        IF data.kind = "error" THEN Raise("YAMLError", "")
        ELSE IF data.kind # "list" THEN DataError(file_path, "must contain a list of objects")
        ELSE IF data.items = <<>> THEN DataError(file_path, "contains empty list")
        ELSE ConvertRecords(file_path, data.items, "must contain a list of dictionaries",
                            "All items must be dictionaries"),
        {"YAMLError"})

_read_yaml_for_parametrize(file_path, encoding) ==
    IF ~yaml THEN Raise("ImportError", PYYAML_REQUIRED)
    ELSE IF ~FileOpens(file_path) THEN Raise("FileNotFoundError", "")
    ELSE WithOpen(
        LET data == fs[file_path].yaml IN
        IF data.kind = "error" THEN Raise("YAMLError", "")
        ELSE IF data.kind # "list" THEN DataError(file_path, "must contain a list of objects")
        ELSE IF data.items = <<>> THEN DataError(file_path, "contains empty list")
        ELSE ConvertRecords(file_path, data.items, "must contain a list of dictionaries",
                            "All items must be dictionaries"),
        {"YAMLError"})

(***************************************************************************)
(* Environment steps: the test process changes directory or the variable   *)
(***************************************************************************)
Chdir(d) ==
    /\ d # cwd
    /\ cwd' = d
    /\ UNCHANGED <<environ, fs, yaml, last>>

SetEnv(v) ==
    /\ environ[ENV_VAR] # v
    /\ environ' = [environ EXCEPT ![ENV_VAR] = v]
    /\ UNCHANGED <<cwd, fs, yaml, last>>

UnsetEnv ==
    /\ environ[ENV_VAR] # Unset
    /\ environ' = [environ EXCEPT ![ENV_VAR] = Unset]
    /\ UNCHANGED <<cwd, fs, yaml, last>>

(***************************************************************************)
(* A direct call of _get_fixtures_path(fixtures_dir); `last' keeps the     *)
(* arguments, the process state the call saw and what it returned.         *)
(***************************************************************************)
CallGetFixturesPath(fixtures_dir) ==
    /\ last' = [op |-> "_get_fixtures_path",
                fixtures_dir |-> fixtures_dir,
                cwd |-> cwd,
                env |-> environ[ENV_VAR],
                result |-> _get_fixtures_path(fixtures_dir)]
    /\ UNCHANGED <<cwd, environ, fs, yaml>>

NoCall == [op |-> "none"]

InitPath ==
    /\ cwd = W1
    /\ environ = [v \in {ENV_VAR} |-> Unset]
    /\ fs = <<>>
    /\ yaml = TRUE
    /\ last = NoCall

NextPath ==
    \/ \E d \in WorkDirs : Chdir(d)
    \/ \E v \in EnvValues : SetEnv(v)
    \/ UnsetEnv
    \/ \E fixtures_dir \in FixturesDirArgs : CallGetFixturesPath(fixtures_dir)

SpecPath == InitPath /\ [][NextPath]_vars

(***************************************************************************)
(* Fixture files for the readers.  A record is given by the order of its   *)
(* keys; the value of key k in record i is Val(i, k): a number in the odd  *)
(* records, a text in the even ones, different for every (i, k).           *)
(***************************************************************************)
MaxKeys == 2

MaxRecords == 2

MaxLines == 2

KeyNames == {"id", "a", "b"}

Val(i, k) == <<IF i % 2 = 1 THEN "int" ELSE "str", k \o ToString(i)>>

Cell(i, j) == "c" \o ToString(i) \o ToString(j)

Injective(s) == \A i, j \in 1..Len(s) : s[i] = s[j] => i = j

SeqsUpTo(S, n) == UNION {[1..m -> S] : m \in 0..n}

KeySeqs == {ks \in SeqsUpTo(KeyNames, MaxKeys) : Injective(ks)}

ItemShapes == {[isdict |-> TRUE, keys |-> ks] : ks \in KeySeqs}
                  \cup {[isdict |-> FALSE, keys |-> <<>>]}

MkItem(i, sh) ==
    IF sh.isdict
    THEN Mapping([j \in 1..Len(sh.keys) |-> << <<"str", sh.keys[j]>>, Val(i, sh.keys[j]) >>])
    ELSE NotMapping

Docs == {ListDoc([i \in 1..Len(shs) |-> MkItem(i, shs[i])]) : shs \in SeqsUpTo(ItemShapes, MaxRecords)}
            \cup {OtherDoc, BadDoc}

LineShapes == {[kind |-> "value", sh |-> sh] : sh \in ItemShapes}
                  \cup {[kind |-> k, sh |-> [isdict |-> FALSE, keys |-> <<>>]] : k \in {"blank", "error"}}

MkLine(i, ls) ==
    IF ls.kind = "value" THEN ValueLine(MkItem(i, ls.sh))
    ELSE IF ls.kind = "blank" THEN BlankLine ELSE BadLine

LineDocs == {[i \in 1..Len(lss) |-> MkLine(i, lss[i])] : lss \in SeqsUpTo(LineShapes, MaxLines)}

\* a header row (duplicates allowed), then data rows of 0..MaxKeys+1 cells
CsvTables ==
    {CsvRows(<<h>> \o [i \in 1..Len(lens) |-> [j \in 1..lens[i] |-> Cell(i, j)]]) :
        h \in SeqsUpTo(KeyNames, MaxKeys), lens \in SeqsUpTo(0..(MaxKeys + 1), MaxRecords)}
    \cup {CsvRows(<<>>), BadCsv}

\* what the csv module makes of a text that is not CSV: one header row, no data
NotCsv == CsvRows(<< <<"garbage">> >>)

CsvContent(v) == [csv |-> v, json |-> BadDoc, jsonl |-> <<BadLine>>, yaml |-> BadDoc]

JsonContent(d) == [csv |-> NotCsv, json |-> d, jsonl |-> <<BadLine>>, yaml |-> d]

JsonlContent(ls) == [csv |-> NotCsv, json |-> BadDoc, jsonl |-> ls, yaml |-> BadDoc]

YamlContent(d) == [csv |-> NotCsv, json |-> BadDoc, jsonl |-> <<BadLine>>, yaml |-> d]

\* JSON Lines files of three lines with blank lines before, between and
\* after the values
BlankLineDocs ==
    LET v(i) == ValueLine(MkItem(i, [isdict |-> TRUE, keys |-> <<"a">>]))
    IN  {<<v(1), BlankLine, v(3)>>, <<BlankLine, v(2), v(3)>>, <<v(1), v(2), BlankLine>>,
         <<BlankLine, v(2), BlankLine>>}

Contents ==
    {CsvContent(v) : v \in CsvTables} \cup {JsonContent(d) : d \in Docs}
        \cup {JsonlContent(ls) : ls \in LineDocs \cup BlankLineDocs}
        \cup {YamlContent(d) : d \in Docs}

TmpFile == [dir |-> <<"/", "tmp">>, name |-> <<"t">>]

MissingFile == [dir |-> <<"/", "tmp">>, name |-> <<"m">>]

(***************************************************************************)
(* Direct calls of the readers, as the unit tests make them                *)
(***************************************************************************)
ReadCall(reader, file_path, result) ==
    [op |-> "read", reader |-> reader, file_path |-> file_path, result |-> result]

CallReadCsv(file_path) ==
    /\ last' = ReadCall("csv", file_path, _read_csv_for_parametrize(file_path, "utf-8"))
    /\ UNCHANGED <<cwd, environ, fs, yaml>>

CallReadJson(file_path) ==
    /\ last' = ReadCall("json", file_path, _read_json_for_parametrize(file_path, "utf-8"))
    /\ UNCHANGED <<cwd, environ, fs, yaml>>

CallReadJsonl(file_path) ==
    /\ last' = ReadCall("jsonl", file_path, _read_jsonl_for_parametrize(file_path, "utf-8"))
    /\ UNCHANGED <<cwd, environ, fs, yaml>>

CallReadYaml(file_path) ==
    /\ last' = ReadCall("yaml", file_path, _read_yaml_for_parametrize(file_path, "utf-8"))
    /\ UNCHANGED <<cwd, environ, fs, yaml>>

InitRead ==
    /\ cwd = W1
    /\ environ = [v \in {ENV_VAR} |-> Unset]
    /\ \E content \in Contents : fs = [p \in {TmpFile} |-> content]
    /\ yaml \in BOOLEAN
    /\ last = NoCall

NextRead ==
    \E file_path \in {TmpFile, MissingFile} :
        \/ CallReadCsv(file_path)
        \/ CallReadJson(file_path)
        \/ CallReadJsonl(file_path)
        \/ CallReadYaml(file_path)

SpecRead == InitRead /\ [][NextRead]_vars

(***************************************************************************)
(* The record sequence a reader obtains from a file (step 1 of the         *)
(* readers' common algorithm), for the statements about records            *)
(***************************************************************************)
RecordsOf(reader, file_path) ==
    LET c == fs[file_path] IN
    CASE reader = "csv" ->
             LET fieldnames == [i \in 1..Len(c.csv.rows[1]) |-> <<"str", c.csv.rows[1][i]>>]
                 rows == DictReaderRows(fieldnames, Tail(c.csv.rows))
             IN  [i \in 1..Len(rows) |-> Mapping(rows[i])]
      [] reader = "json" -> c.json.items
      [] reader = "jsonl" ->
             LET clean == SelectSeq(c.jsonl, LAMBDA l : l.kind # "blank")
             IN  [i \in 1..Len(clean) |-> clean[i].item]
      [] reader = "yaml" -> c.yaml.items

\* the field names of the first record, in the order the file gives them
FirstFields(reader, file_path) ==
    IF reader = "csv"
    THEN [i \in 1..Len(fs[file_path].csv.rows[1]) |-> <<"str", fs[file_path].csv.rows[1][i]>>]
    ELSE DictKeys(RecordsOf(reader, file_path)[1].d)

IdKey == <<"str", "id">>

\* a successful direct read, and whether its first record has the field id
ReadOk == last.op = "read" /\ last.result.exc = "none"

ReadHasId == IdKey \in ToSet(FirstFields(last.reader, last.file_path))

ParamFields == SelectSeq(FirstFields(last.reader, last.file_path), LAMBDA k : k # IdKey)

(***************************************************************************)
(* C4: when the first record has a field id, a reader returns the names    *)
(* without id, rows without the id value and, third, the records' id       *)
(* values in record order, coerced to text.                                *)
(***************************************************************************)
C4_ReservedIdField ==
    (ReadOk /\ ReadHasId) =>
        LET recs == RecordsOf(last.reader, last.file_path)
            ret  == last.result.ret
        IN  /\ Len(ret) = 3
            /\ ret[1] = JoinNames(ParamFields)
            /\ ret[2] = [i \in 1..Len(recs) |-> RowTuple(recs[i].d, ParamFields)]
            /\ ret[3] = [i \in 1..Len(recs) |-> Str(DictGet(recs[i].d, IdKey))]

(***************************************************************************)
(* C5: when the first record has no field id, a reader returns a triple    *)
(* whose third component is None, whose names are all the fields of the    *)
(* first record and whose rows carry the value of every field.             *)
(***************************************************************************)
C5_NoIdField ==
    (ReadOk /\ ~ReadHasId) =>
        LET recs   == RecordsOf(last.reader, last.file_path)
            fields == FirstFields(last.reader, last.file_path)
            ret    == last.result.ret
        IN  /\ Len(ret) = 3
            /\ ret[1] = JoinNames(fields)
            /\ ret[2] = [i \in 1..Len(recs) |-> RowTuple(recs[i].d, fields)]
            /\ ret[3] = None

(***************************************************************************)
(* C1: a non-None fixtures_dir argument is the resolved base directory,    *)
(* whatever the environment variable and the working directory.            *)
(***************************************************************************)
C1_ExplicitOverrideWins ==
    (last.op = "_get_fixtures_path" /\ last.fixtures_dir # None)
        => last.result = (IF IsAbsolute(last.fixtures_dir)
                          THEN last.fixtures_dir
                          ELSE last.cwd \o last.fixtures_dir)

(***************************************************************************)
(* C2: with fixtures_dir = None and the environment variable set, the      *)
(* result is the variable's value at the time of the call, a relative      *)
(* value being resolved against the working directory.                     *)
(***************************************************************************)
C2_EnvironmentOverride ==
    (last.op = "_get_fixtures_path" /\ last.fixtures_dir = None /\ last.env # Unset)
        => last.result = (IF IsAbsolute(last.env)
                          THEN last.env
                          ELSE last.cwd \o last.env)

(***************************************************************************)
(* C3: with fixtures_dir = None and no environment override, the result    *)
(* is <working directory at the time of the call>/tests/fixtures.          *)
(***************************************************************************)
C3_DefaultPath ==
    (last.op = "_get_fixtures_path" /\ last.fixtures_dir = None /\ last.env = Unset)
        => last.result = last.cwd \o <<"tests", "fixtures">>

\* the default is taken after the working directory has changed
C3_Witness ==
    /\ last.op = "_get_fixtures_path"
    /\ last.fixtures_dir = None
    /\ last.env = Unset
    /\ last.cwd = W2
    /\ last.result = <<"/", "w2", "tests", "fixtures">>

(***************************************************************************)
(* The suffixes the decorator knows                                        *)
(***************************************************************************)
DOTCSV == <<".", "c", "s", "v">>

DOTJSON == <<".", "j", "s", "o", "n">>

DOTJSONL == <<".", "j", "s", "o", "n", "l">>

DOTYAML == <<".", "y", "a", "m", "l">>

DOTYML == <<".", "y", "m", "l">>

(***************************************************************************)
(* Path(fixture_name).suffix.lower()                                       *)
(***************************************************************************)
\* the positions of a character in a name
Positions(name, c) == {i \in 1..Len(name) : name[i] = c}

Last(S) == CHOOSE i \in S : \A j \in S : j <= i

\* PurePath.name: the final component
PathName(name) ==
    IF Positions(name, "/") = {} THEN name
    ELSE SubSeq(name, Last(Positions(name, "/")) + 1, Len(name))

\* PurePath.suffix: from the last dot of the final component, unless that
\* dot is its first or its last character
Suffix(fixture_name) ==
    LET name == PathName(fixture_name)
        dots == Positions(name, ".")
    IN  IF dots # {} /\ 1 < Last(dots) /\ Last(dots) < Len(name)
        THEN SubSeq(name, Last(dots), Len(name))
        ELSE <<>>

ToLower ==
    ("C" :> "c") @@ ("S" :> "s") @@ ("V" :> "v") @@ ("J" :> "j") @@ ("O" :> "o")
        @@ ("N" :> "n") @@ ("L" :> "l") @@ ("Y" :> "y") @@ ("A" :> "a") @@ ("M" :> "m")
        @@ ("X" :> "x") @@ ("Z" :> "z") @@ ("D" :> "d") @@ ("T" :> "t")

\* str.lower()
Lower(str) == [i \in 1..Len(str) |-> IF str[i] \in DOMAIN ToLower THEN ToLower[str[i]] ELSE str[i]]

(***************************************************************************)
(* parametrize_from_fixture(...)(og_test_func)                             *)
(***************************************************************************)
Mut_DetectFormat_case_sensitive(fixture_name) ==
    LET suffix == Suffix(fixture_name)
    IN  IF suffix = DOTCSV THEN "csv"
        ELSE IF suffix = DOTJSON THEN "json"
        ELSE IF suffix = DOTJSONL THEN "jsonl"
        ELSE IF suffix \in {DOTYAML, DOTYML} THEN "yaml"
        ELSE "undetected"

\* lines 57-67: the format of a suffix, "undetected" where the code raises
DetectFormat(fixture_name) ==
    LET suffix == Lower(Suffix(fixture_name))
    IN  IF suffix = DOTCSV THEN "csv"
        ELSE IF suffix = DOTJSON THEN "json"
        ELSE IF suffix = DOTJSONL THEN "jsonl"
        ELSE IF suffix \in {DOTYAML, DOTYML} THEN "yaml"
        ELSE "undetected"

Mut_ResolveFormat_extension_first(fixture_name, file_format) ==
    IF file_format = "auto" \/ DetectFormat(fixture_name) # "undetected"
    THEN DetectFormat(fixture_name)
    ELSE file_format

\* lines 55-67: the extension is looked at only under "auto"
ResolveFormat(fixture_name, file_format) ==
    IF file_format = "auto" THEN DetectFormat(fixture_name) ELSE file_format

Mut_Exists_unchecked(file_path) == TRUE

\* Path.exists()
Exists(file_path) == file_path \in DOMAIN fs

Mut_ReaderFor_any_case(detected_format) ==
    IF detected_format \in {"csv", "CSV"} THEN "csv"
    ELSE IF detected_format \in {"json", "JSON"} THEN "json"
    ELSE IF detected_format \in {"jsonl", "JSONL"} THEN "jsonl"
    ELSE IF detected_format \in {"yaml", "YAML"} THEN "yaml"
    ELSE "unsupported"

\* lines 75-84: the if/elif chain over the format tag
ReaderFor(detected_format) ==
    IF detected_format = "csv" THEN "csv"
    ELSE IF detected_format = "json" THEN "json"
    ELSE IF detected_format = "jsonl" THEN "jsonl"
    ELSE IF detected_format = "yaml" THEN "yaml"
    ELSE "unsupported"

CallReader(reader, fixture_path, encoding) ==
    CASE reader = "csv"   -> _read_csv_for_parametrize(fixture_path, encoding)
      [] reader = "json"  -> _read_json_for_parametrize(fixture_path, encoding)
      [] reader = "jsonl" -> _read_jsonl_for_parametrize(fixture_path, encoding)
      [] reader = "yaml"  -> _read_yaml_for_parametrize(fixture_path, encoding)

\* a merge that lets through only the option ids
Mut_DictMerge_ids_only(a, b) ==
    [k \in DOMAIN a \cup (DOMAIN b \cap {"ids"}) |-> IF k \in DOMAIN b THEN b[k] ELSE a[k]]

Mut_DictMerge_left_wins(a, b) == [k \in DOMAIN a \cup DOMAIN b |-> IF k \in DOMAIN a THEN a[k] ELSE b[k]]

\* {"argnames": ..., "argvalues": ..., **kwargs}: the right operand wins
DictMerge(a, b) == [k \in DOMAIN a \cup DOMAIN b |-> IF k \in DOMAIN b THEN b[k] ELSE a[k]]

\* pytest.mark.parametrize(**parametrize_kwargs)(og_test_func): the marks of the function
ApplyMark(pytestmark, parametrize_kwargs) ==
    Append(pytestmark, [name |-> "parametrize", args |-> <<>>, kwargs |-> parametrize_kwargs])

\* how a decoration ends: the exception ("none" on return), the directory and
\* format it resolved, the reader it called ("none" if none) and the marks of
\* the function afterwards
Outcome(exc, msg, fixtures_path, detected_format, reader, pytestmark) ==
    [exc |-> exc, msg |-> msg, fixtures_path |-> fixtures_path,
     detected_format |-> detected_format, reader |-> reader, pytestmark |-> pytestmark]

\* the decorator checking the format tag before it looks for the file
Mut_decorator_format_first(fixture_name, file_format, encoding, fixtures_dir, kwargs) ==
    LET fixtures_path   == _get_fixtures_path(fixtures_dir)
        detected_format == ResolveFormat(fixture_name, file_format)
        fixture_path    == FixturePath(fixtures_path, fixture_name)
        reader          == ReaderFor(detected_format)
    IN  IF file_format = "auto" /\ detected_format = "undetected"
        THEN Outcome("ValueError", "Cannot auto-detect format", fixtures_path, detected_format, "none", <<>>)
        ELSE IF reader = "unsupported"
        THEN Outcome("ValueError", "Unsupported file format", fixtures_path, detected_format, "none", <<>>)
        ELSE IF ~Exists(fixture_path)
        THEN Outcome("FileNotFoundError", "does not exist", fixtures_path, detected_format, "none", <<>>)
        ELSE LET r == CallReader(reader, fixture_path, encoding)
             IN  IF r.exc # "none"
                 THEN Outcome(r.exc, r.msg, fixtures_path, detected_format, reader, <<>>)
                 ELSE Outcome("none", "", fixtures_path, detected_format, reader,
                              ApplyMark(<<>>, DictMerge([argnames |-> r.ret[1], argvalues |-> r.ret[2]],
                                                        kwargs)))

decorator(fixture_name, file_format, encoding, fixtures_dir, kwargs) ==
    LET fixtures_path   == _get_fixtures_path(fixtures_dir)
        detected_format == ResolveFormat(fixture_name, file_format)
        fixture_path    == FixturePath(fixtures_path, fixture_name)
        reader          == ReaderFor(detected_format)
    IN  IF file_format = "auto" /\ detected_format = "undetected"
        THEN Outcome("ValueError", "Cannot auto-detect format", fixtures_path, detected_format, "none", <<>>)
        ELSE IF ~Exists(fixture_path)
        THEN Outcome("FileNotFoundError", "does not exist", fixtures_path, detected_format, "none", <<>>)
        ELSE IF reader = "unsupported"
        THEN Outcome("ValueError", "Unsupported file format", fixtures_path, detected_format, "none", <<>>)
        ELSE LET r == CallReader(reader, fixture_path, encoding)
             IN  IF r.exc # "none"
                 THEN Outcome(r.exc, r.msg, fixtures_path, detected_format, reader, <<>>)
                 ELSE IF Len(r.ret) # 2
                 THEN Outcome("ValueError", "too many values to unpack", fixtures_path,
                              detected_format, reader, <<>>)
                 ELSE Outcome("none", "", fixtures_path, detected_format, reader,
                              ApplyMark(<<>>, DictMerge([argnames |-> r.ret[1], argvalues |-> r.ret[2]],
                                                        kwargs)))

\* one use of @parametrize_from_fixture(fixture_name, ...) on a test function
Decorate(fixture_name, file_format, fixtures_dir, kwargs) ==
    /\ last' = [op |-> "decorate",
                fixture_name |-> fixture_name,
                file_format |-> file_format,
                fixtures_dir |-> fixtures_dir,
                kwargs |-> kwargs,
                cwd |-> cwd,
                env |-> environ[ENV_VAR],
                existed |-> Exists(FixturePath(_get_fixtures_path(fixtures_dir), fixture_name)),
                result |-> decorator(fixture_name, file_format, "utf-8", fixtures_dir, kwargs)]
    /\ UNCHANGED <<cwd, environ, fs, yaml>>

(***************************************************************************)
(* Decorations over a small fixtures tree: at most one fixture file, in    *)
(* the default directory of /w1 or in the custom directory.                *)
(***************************************************************************)
T_CSV == <<"t", ".", "c", "s", "v">>

T_XYZ == <<"t", ".", "x", "y", "z">>

T_JSON == <<"t", ".", "j", "s", "o", "n">>

M_JSONL == <<"m", ".", "j", "s", "o", "n", "l">>

FileNames == {T_CSV, T_XYZ, T_JSON}

DefaultDir1 == <<"/", "w1", "tests", "fixtures">>

Shape(ks) == [isdict |-> TRUE, keys |-> ks]

CsvWithId == CsvContent(CsvRows(<< <<"id", "a", "b">>, <<"c11", "c12", "c13">>, <<"c21", "c22", "c23">> >>))

CsvNoId == CsvContent(CsvRows(<< <<"a", "b">>, <<"c11", "c12">>, <<"c21", "c22">> >>))

JsonWithId == JsonContent(ListDoc(<<MkItem(1, Shape(<<"id", "a">>)), MkItem(2, Shape(<<"a", "id">>))>>))

JsonlWithId == JsonlContent(<<ValueLine(MkItem(1, Shape(<<"id", "a">>))), BlankLine,
                              ValueLine(MkItem(3, Shape(<<"id", "a">>)))>>)

YamlNoId == YamlContent(ListDoc(<<MkItem(1, Shape(<<"a", "b">>))>>))

SampleContents == {CsvWithId, CsvNoId, JsonWithId, JsonlWithId, YamlNoId}

FileSystems ==
    {<<>>} \cup {[p \in {FixturePath(dir, name)} |-> content] :
                    dir \in {DefaultDir1, CustomDir}, name \in FileNames, content \in SampleContents}

FormatTags == {"auto", "csv", "json", "jsonl", "yaml", "CSV", "xml"}

NoKwargs == [k \in {} |-> None]

UserIds == << <<"str", "user_id_1">>, <<"str", "user_id_2">> >>

KwargsArgs == {NoKwargs, [ids |-> UserIds]}

Init ==
    /\ cwd \in {W1, W2}
    /\ environ \in [{ENV_VAR} -> {Unset, EnvDir}]
    /\ fs \in FileSystems
    /\ yaml \in BOOLEAN
    /\ last = NoCall

Next ==
    \E fixture_name \in FileNames \cup {M_JSONL}, file_format \in FormatTags,
       fixtures_dir \in {None, CustomDir}, kwargs \in KwargsArgs :
        Decorate(fixture_name, file_format, fixtures_dir, kwargs)

Spec == Init /\ [][Next]_vars

(***************************************************************************)
(* Decorations over many fixture names: every name of up to MaxNameLen     *)
(* characters over NameChars, and names of the other formats.  The file    *)
(* is in the default directory of /w1; a process started in /w2 does not   *)
(* find it.                                                                *)
(***************************************************************************)
MaxNameLen == 5

NameChars == {".", "c", "s", "v", "C"}

OtherNames ==
    {<<"d", ".", "j", "s", "o", "n">>,
     <<"d", ".", "J", "S", "O", "N">>,
     <<"d", ".", "j", "s", "o", "n", "l">>,
     <<"d", ".", "J", "s", "o", "n", "l">>,
     <<"d", ".", "y", "a", "m", "l">>,
     <<"d", ".", "Y", "A", "M", "L">>,
     <<"d", ".", "y", "m", "l">>,
     <<"d", ".", "Y", "m", "l">>,
     <<"d", "a", "t", "a", ".", "x", "y", "z">>,
     <<"d", "a", "t", "a">>,
     <<"a", ".", "c", "s", "v", "/", "d">>,
     <<"d", ".", "t", "a", "r", ".", "j", "s", "o", "n">>,
     <<"d", ".", "y", "a", "m", "l", "x">>,
     <<"d", ".", "j", "s", "o">>}

DetectNames == (SeqsUpTo(NameChars, MaxNameLen) \ {<<>>}) \cup OtherNames

InitDetect ==
    /\ cwd \in {W1, W2}
    /\ environ = [v \in {ENV_VAR} |-> Unset]
    /\ \E name \in DetectNames, content \in {CsvNoId, JsonWithId} :
           fs = [p \in {FixturePath(DefaultDir1, name)} |-> content]
    /\ yaml = TRUE
    /\ last = NoCall

NextDetect ==
    \E p \in DOMAIN fs, file_format \in {"auto", "json"} :
        Decorate(p.name, file_format, None, NoKwargs)

SpecDetect == InitDetect /\ [][NextDetect]_vars

(***************************************************************************)
(* Vocabulary of the statements about decorations                          *)
(***************************************************************************)
Decorated == last.op = "decorate"

\* the name's final component ends with the extension e, compared without
\* regard to case, and has at least one character before it
HasExt(name, e) ==
    /\ Len(name) > Len(e)
    /\ Lower(SubSeq(name, Len(name) - Len(e) + 1, Len(name))) = e
    /\ name[Len(name) - Len(e)] # "/"

ExtFormat(name) ==
    IF HasExt(name, DOTCSV) THEN "csv"
    ELSE IF HasExt(name, DOTJSON) THEN "json"
    ELSE IF HasExt(name, DOTJSONL) THEN "jsonl"
    ELSE IF HasExt(name, DOTYAML) \/ HasExt(name, DOTYML) THEN "yaml"
    ELSE "none"

\* the base directory by the resolution order: argument, variable, default
FixturesDirectory(fixtures_dir, env, dir) ==
    IF fixtures_dir # None THEN PathJoin(dir, fixtures_dir)
    ELSE IF env # Unset THEN PathJoin(dir, env)
    ELSE dir \o <<"tests", "fixtures">>

\* the records of the fixture file are all mappings with the field id
FileHasIds(reader, file_path) ==
    LET recs == RecordsOf(reader, file_path)
    IN  /\ recs # <<>>
        /\ \A i \in 1..Len(recs) : recs[i].isdict /\ IdKey \in KeySet(recs[i].d)

FileIds(reader, file_path) ==
    LET recs == RecordsOf(reader, file_path)
    IN  [i \in 1..Len(recs) |-> Str(DictGet(recs[i].d, IdKey))]

(***************************************************************************)
(* C6: the identifiers handed to pytest.mark.parametrize are the caller's  *)
(* when the caller gives `ids`, and the file's id values when the caller   *)
(* gives none and every record of the file has the field id.               *)
(***************************************************************************)
C6_IdentifierPrecedence ==
    (Decorated /\ last.result.exc = "none") =>
        LET mark == last.result.pytestmark[1]
            file_path == FixturePath(last.result.fixtures_path, last.fixture_name)
        IN  /\ "ids" \in DOMAIN last.kwargs => mark.kwargs.ids = last.kwargs.ids
            /\ ("ids" \notin DOMAIN last.kwargs /\ FileHasIds(last.result.reader, file_path))
                   => /\ "ids" \in DOMAIN mark.kwargs
                      /\ mark.kwargs.ids = FileIds(last.result.reader, file_path)

(***************************************************************************)
(* C7: under "auto" the format is a function of the name's extension       *)
(* compared without regard to case: .csv, .json, .jsonl, .yaml and .yml    *)
(* select their reader; any other name fails with ValueError and no        *)
(* reader is called.                                                       *)
(***************************************************************************)
C7_AutoDetection ==
    (Decorated /\ last.file_format = "auto") =>
        IF ExtFormat(last.fixture_name) = "none"
        THEN /\ last.result.exc = "ValueError"
             /\ last.result.msg = "Cannot auto-detect format"
             /\ last.result.reader = "none"
             /\ last.result.pytestmark = <<>>
        ELSE /\ last.result.detected_format = ExtFormat(last.fixture_name)
             /\ last.result.msg # "Cannot auto-detect format"
             /\ last.result.reader \in {"none", ExtFormat(last.fixture_name)}
             /\ last.existed => last.result.reader = ExtFormat(last.fixture_name)

\* an upper-case extension selected the CSV reader
C7_Witness ==
    /\ Decorated
    /\ last.file_format = "auto"
    /\ last.fixture_name = <<"c", ".", "C", "s", "v">>
    /\ last.result.reader = "csv"
    /\ last.result.exc = "none"

C9_MissingFile ==
    (/\ Decorated
     /\ \/ last.file_format \in {"csv", "json", "jsonl", "yaml"}
        \/ last.file_format = "auto" /\ ExtFormat(last.fixture_name) # "none"
     /\ ~Exists(FixturePath(FixturesDirectory(last.fixtures_dir, last.env, last.cwd),
                            last.fixture_name)))
        => /\ last.result.exc = "FileNotFoundError"
           /\ last.result.reader = "none"
           /\ last.result.pytestmark = <<>>

(***************************************************************************)
(* C10: an explicit tag csv, json, jsonl or yaml decides the reader        *)
(* without regard to the name's extension: the format resolved is the tag  *)
(* and the reader called on the file is the tag's.                         *)
(***************************************************************************)
C10_ExplicitTagWins ==
    (Decorated /\ last.file_format \in {"csv", "json", "jsonl", "yaml"})
        => /\ last.result.detected_format = last.file_format
           /\ last.result.msg # "Cannot auto-detect format"
           /\ last.result.reader \in {"none", last.file_format}
           /\ last.existed => last.result.reader = last.file_format

\* a CSV file named t.json was read by the CSV reader because the tag said so
C10_Witness ==
    /\ Decorated
    /\ last.file_format = "csv"
    /\ last.fixture_name = T_JSON
    /\ ExtFormat(last.fixture_name) = "json"
    /\ last.result.reader = "csv"
    /\ last.result.exc = "none"
    /\ last.result.pytestmark[1].kwargs.argnames = "a,b"

(***************************************************************************)
(* Vocabulary of the statements about reads                                *)
(***************************************************************************)
Read == last.op = "read"

\* the reader got as far as a record sequence: the file opened and parsed
\* (for YAML, with the library present) into a header, a list or lines
Parsed(reader, file_path) ==
    /\ FileOpens(file_path)
    /\ CASE reader = "csv" ->
                /\ fs[file_path].csv.ok
                /\ fs[file_path].csv.rows # <<>>
                /\ fs[file_path].csv.rows[1] # <<>>
         [] reader = "json" -> fs[file_path].json.kind = "list"
         [] reader = "jsonl" -> \A i \in 1..Len(fs[file_path].jsonl) : fs[file_path].jsonl[i].kind # "error"
         [] reader = "yaml" -> yaml /\ fs[file_path].yaml.kind = "list"

(***************************************************************************)
(* C11: a reader whose parsed record sequence is empty fails with          *)
(* ValueError, and no reader returns an empty list of rows.                *)
(***************************************************************************)
C11_EmptyRecordSet ==
    Read =>
        /\ (Parsed(last.reader, last.file_path) /\ RecordsOf(last.reader, last.file_path) = <<>>)
               => last.result.exc = "ValueError"
        /\ last.result.exc = "none" => last.result.ret[2] # <<>>

\* a JSON Lines file of blank lines only was rejected
C11_Witness ==
    /\ Read
    /\ last.reader = "jsonl"
    /\ fs[TmpFile].jsonl = <<BlankLine, BlankLine>>
    /\ last.file_path = TmpFile
    /\ last.result.exc = "ValueError"
    /\ last.result.msg = "contains no data"

\* the header of a CSV file and its non-blank data rows, as csv.reader gives them
Header(file_path) == fs[file_path].csv.rows[1]

DataRows(file_path) == SelectSeq(Tail(fs[file_path].csv.rows), LAMBDA r : r # <<>>)

Ragged(file_path) ==
    \E k \in 1..Len(DataRows(file_path)) : Len(DataRows(file_path)[k]) # Len(Header(file_path))

AllMappings(recs) == \A k \in 1..Len(recs) : recs[k].isdict

\* some record after the first has another key set than the first
KeysDiffer(reader, file_path) ==
    IF reader = "csv" THEN Ragged(file_path)
    ELSE LET recs == RecordsOf(reader, file_path)
         IN  \E k \in 2..Len(recs) : KeySet(recs[k].d) # KeySet(recs[1].d)

\* a read that reached the comparison of the records: records were parsed,
\* there is at least one and each is a mapping
Compared ==
    /\ Read
    /\ Parsed(last.reader, last.file_path)
    /\ RecordsOf(last.reader, last.file_path) # <<>>
    /\ AllMappings(RecordsOf(last.reader, last.file_path))

(***************************************************************************)
(* C12: for every reader, CSV included, a record after the first *)
(* whose key set differs from the first record's (a CSV data row with more *)
(* or fewer cells than the header) makes the read fail with a ValueError   *)
(* naming the file; equal key sets in any order are accepted.              *)
(***************************************************************************)
C12_FieldSetConsistency ==
    Compared =>
        IF KeysDiffer(last.reader, last.file_path)
        THEN last.result.exc = "ValueError" /\ last.result.file = last.file_path
        ELSE last.result.exc = "none"

(***************************************************************************)
(* C13: every component of every row tuple the CSV reader        *)
(* returns is a string, the text of a cell of the file, also when a data   *)
(* row has fewer cells than the header.                                    *)
(***************************************************************************)
C13_CsvAlwaysText ==
    (ReadOk /\ last.reader = "csv") =>
        \A k \in 1..Len(last.result.ret[2]) : \A i \in 1..Len(last.result.ret[2][k]) :
            /\ last.result.ret[2][k][i][1] = "str"
            /\ \E j \in 1..Len(DataRows(last.file_path)[k]) :
                   last.result.ret[2][k][i][2] = DataRows(last.file_path)[k][j]

(***************************************************************************)
(* C14: a successful read returns one row per record, in record order;     *)
(* every row has one component per parameter name, the i-th being that     *)
(* record's value for the i-th name, with the names in the order of the    *)
(* first record's keys whatever the order of the later records' keys; the  *)
(* first component returned is the names joined by commas; identifiers,    *)
(* when returned, are one per row.  The parameter names are the first      *)
(* record's fields, with or without the field id.                          *)
(***************************************************************************)
C14_RowAlignment ==
    ReadOk =>
        LET recs == RecordsOf(last.reader, last.file_path)
            ret  == last.result.ret
        IN  /\ \E names \in {FirstFields(last.reader, last.file_path), ParamFields} :
                   /\ ret[1] = JoinNames(names)
                   /\ Len(ret[2]) = Len(recs)
                   /\ \A k \in 1..Len(recs) :
                          /\ Len(ret[2][k]) = Len(names)
                          /\ \A i \in 1..Len(names) : ret[2][k][i] = DictGet(recs[k].d, names[i])
            /\ (Len(ret) >= 3 /\ ret[3] # None) => Len(ret[3]) = Len(recs)

\* a JSON list of two mappings with the same two keys in opposite orders was read
C14_Witness ==
    /\ ReadOk
    /\ last.reader = "json"
    /\ LET recs == RecordsOf("json", last.file_path)
       IN  /\ Len(recs) = 2
           /\ Len(recs[1].d) = 2
           /\ DictKeys(recs[2].d) # DictKeys(recs[1].d)
           /\ last.result.ret[2][2] = <<recs[2].d[2][2], recs[2].d[1][2]>>

(***************************************************************************)
(* Decorations and direct reads over one fixture file of the default       *)
(* directory: well-formed and ill-formed files of each format, under a     *)
(* .csv, .yml or .yaml name, with and without PyYAML, and pass-through     *)
(* options of every kind.  A decoration naming the other file names finds  *)
(* no file.                                                                *)
(***************************************************************************)
D_YML == <<"d", ".", "y", "m", "l">>

D_YAML == <<"d", ".", "Y", "A", "M", "L">>

CaseNames == {T_CSV, D_YML, D_YAML}

CsvShortRow == CsvContent(CsvRows(<< <<"a", "b">>, <<"c11", "c12">>, <<"c21">> >>))

CsvHeaderOnly == CsvContent(CsvRows(<< <<"a", "b">> >>))

JsonKeysDiffer == JsonContent(ListDoc(<<MkItem(1, Shape(<<"a", "b">>)), MkItem(2, Shape(<<"a">>))>>))

JsonNotMapping == JsonContent(ListDoc(<<MkItem(1, Shape(<<"a">>)), NotMapping>>))

JsonlIdMissing == JsonlContent(<<ValueLine(MkItem(1, Shape(<<"id", "a">>))),
                                 ValueLine(MkItem(2, Shape(<<"a">>)))>>)

JsonlBadLine == JsonlContent(<<ValueLine(MkItem(1, Shape(<<"a">>))), BadLine>>)

YamlWithId == YamlContent(ListDoc(<<MkItem(1, Shape(<<"id", "a">>)), MkItem(2, Shape(<<"id", "a">>))>>))

YamlEmpty == YamlContent(OtherDoc)

CaseContents ==
    SampleContents \cup {CsvShortRow, CsvHeaderOnly, JsonKeysDiffer, JsonNotMapping,
                         JsonlIdMissing, JsonlBadLine, YamlWithId, YamlEmpty}

CaseTags == {"auto", "csv", "json", "jsonl", "yaml", "xml"}

UserNames == "x,y"

UserValues == << << <<"int", "u1">>, <<"int", "u2">> >> >>

CaseKwargs ==
    {NoKwargs,
     [ids |-> UserIds],
     [scope |-> <<"str", "module">>],
     [argvalues |-> UserValues],
     [argnames |-> UserNames, argvalues |-> UserValues]}

\* what a call made of a file: the exception, its message and the rows
Seen(exc, msg, rows) == [exc |-> exc, msg |-> msg, rows |-> rows]

NotSeen == Seen("n/a", "", <<>>)

\* what the previous call made of the file, if it was a call of this reader
\* on this file or a decoration that called this reader on this file and
\* kept the reader's rows
PrevOutcome(reader, file_path) ==
    IF last.op \in {"read", "reread"} /\ last.reader = reader /\ last.file_path = file_path
    THEN Seen(last.result.exc, last.result.msg,
              IF last.result.exc = "none" THEN last.result.ret[2] ELSE <<>>)
    ELSE IF /\ last.op = "decorate"
            /\ last.result.reader = reader
            /\ FixturePath(last.result.fixtures_path, last.fixture_name) = file_path
            /\ "argvalues" \notin DOMAIN last.kwargs
    THEN Seen(last.result.exc, last.result.msg,
              IF last.result.exc = "none" THEN last.result.pytestmark[1].kwargs.argvalues ELSE <<>>)
    ELSE NotSeen

\* the reader called once more on the file the previous call read
Reread(reader, file_path) ==
    /\ PrevOutcome(reader, file_path) # NotSeen
    /\ last' = [op |-> "reread", reader |-> reader, file_path |-> file_path,
                before |-> PrevOutcome(reader, file_path),
                result |-> CallReader(reader, file_path, "utf-8")]
    /\ UNCHANGED <<cwd, environ, fs, yaml>>

InitCases ==
    /\ cwd = W1
    /\ environ = [v \in {ENV_VAR} |-> Unset]
    /\ \E name \in CaseNames, content \in CaseContents :
           fs = [p \in {FixturePath(DefaultDir1, name)} |-> content]
    /\ yaml \in BOOLEAN
    /\ last = NoCall

NextCases ==
    \/ \E fixture_name \in CaseNames, file_format \in CaseTags, kwargs \in CaseKwargs :
           Decorate(fixture_name, file_format, None, kwargs)
    \/ \E file_path \in DOMAIN fs \cup {MissingFile} :
           \/ CallReadCsv(file_path)
           \/ CallReadJson(file_path)
           \/ CallReadJsonl(file_path)
           \/ CallReadYaml(file_path)
           \/ \E reader \in {"csv", "json", "jsonl", "yaml"} : Reread(reader, file_path)

SpecCases == InitCases /\ [][NextCases]_vars

\* the path the decoration gave its reader, and a decoration that returned
FixtureFile == FixturePath(last.result.fixtures_path, last.fixture_name)

DecoratedOk == Decorated /\ last.result.exc = "none"

\* the rows of the records of a file under the given names
FileRows(reader, file_path, names) ==
    LET recs == RecordsOf(reader, file_path)
    IN  [k \in 1..Len(recs) |-> [i \in 1..Len(names) |-> DictGet(recs[k].d, names[i])]]

\* the parameter names of a file: the first record's fields, with or without id
NameLists(reader, file_path) ==
    {FirstFields(reader, file_path),
     SelectSeq(FirstFields(reader, file_path), LAMBDA k : k # IdKey)}

(***************************************************************************)
(* C15: after a successful decoration the function carries exactly one     *)
(* parametrize mark, whose argnames is the joined names of the file and    *)
(* whose argvalues is one row per record of the file, in file order.       *)
(***************************************************************************)
C15_OneCasePerRecord ==
    DecoratedOk =>
        /\ Len(last.result.pytestmark) = 1
        /\ last.result.pytestmark[1].name = "parametrize"
        /\ \E names \in NameLists(last.result.reader, FixtureFile) :
               /\ last.result.pytestmark[1].kwargs.argnames = JoinNames(names)
               /\ last.result.pytestmark[1].kwargs.argvalues =
                      FileRows(last.result.reader, FixtureFile, names)

(***************************************************************************)
(* C15 amended: after a successful decoration the function carries exactly *)
(* one parametrize mark; its argnames is the caller's option argnames when *)
(* given, else the joined names of the file, and its argvalues is the      *)
(* caller's option argvalues when given, else one row per record of the    *)
(* file, in file order.                                                    *)
(***************************************************************************)
C15_OneCasePerRecordUnlessOverridden ==
    DecoratedOk =>
        /\ Len(last.result.pytestmark) = 1
        /\ last.result.pytestmark[1].name = "parametrize"
        /\ \E names \in NameLists(last.result.reader, FixtureFile) :
               /\ last.result.pytestmark[1].kwargs.argnames =
                      IF "argnames" \in DOMAIN last.kwargs THEN last.kwargs.argnames
                      ELSE JoinNames(names)
               /\ last.result.pytestmark[1].kwargs.argvalues =
                      IF "argvalues" \in DOMAIN last.kwargs THEN last.kwargs.argvalues
                      ELSE FileRows(last.result.reader, FixtureFile, names)

\* a YAML file of one record, decorated without options, gave one case
C15_Witness ==
    /\ DecoratedOk
    /\ last.kwargs = NoKwargs
    /\ last.result.reader = "yaml"
    /\ Len(RecordsOf("yaml", FixtureFile)) = 1
    /\ Len(last.result.pytestmark[1].kwargs.argvalues) = 1

\* a file the reader must refuse: it does not parse, has no record, has a
\* record that is not a mapping or, for JSON, JSON Lines and YAML, has a
\* record whose key set differs from the first record's
FileInvalid(reader, file_path) ==
    IF ~Parsed(reader, file_path) THEN TRUE
    ELSE IF RecordsOf(reader, file_path) = <<>> THEN TRUE
    ELSE IF ~AllMappings(RecordsOf(reader, file_path)) THEN TRUE
    ELSE reader # "csv" /\ KeysDiffer(reader, file_path)

(***************************************************************************)
(* C16: a decoration in which dispatch or the reader raises applies no     *)
(* mark: the reader's exception and message are the decoration's outcome   *)
(* unchanged, a decoration that calls no reader fails, and a file with a   *)
(* violation in any record is never parametrized over the records before   *)
(* it.                                                                     *)
(***************************************************************************)
C16_NoPartialSuccess ==
    Decorated =>
        /\ last.result.exc # "none" => last.result.pytestmark = <<>>
        /\ last.result.reader = "none" => last.result.exc # "none"
        /\ last.result.reader # "none" =>
               /\ last.result.exc = CallReader(last.result.reader, FixtureFile, "utf-8").exc
               /\ last.result.msg = CallReader(last.result.reader, FixtureFile, "utf-8").msg
               /\ FileInvalid(last.result.reader, FixtureFile) =>
                      last.result.exc # "none" /\ last.result.pytestmark = <<>>

\* a JSON list whose second record lacks a key of the first was decorated
\* with: the ValueError of the reader came out and no mark was applied
C16_Witness ==
    /\ Decorated
    /\ last.result.reader = "json"
    /\ fs[FixtureFile] = JsonKeysDiffer
    /\ last.result.exc = "ValueError"
    /\ last.result.msg = "must have the same keys"
    /\ last.result.pytestmark = <<>>

\* a YAML read is asked for: by a direct call of the YAML reader, by the
\* format yaml, or by the format auto with a .yaml or .yml name
YamlRequested ==
    \/ Read /\ last.reader = "yaml"
    \/ /\ Decorated
       /\ \/ last.file_format = "yaml"
          \/ last.file_format = "auto" /\ ExtFormat(last.fixture_name) = "yaml"

(***************************************************************************)
(* C17: every YAML read asked for while PyYAML is unavailable ends in the  *)
(* ImportError that names PyYAML and where to obtain it.                   *)
(***************************************************************************)
C17_MissingYamlDependency ==
    (YamlRequested /\ ~yaml) =>
        last.result.exc = "ImportError" /\ last.result.msg = PYYAML_REQUIRED

(***************************************************************************)
(* C17 amended: while PyYAML is unavailable, every call of the YAML reader *)
(* ends in the ImportError that names PyYAML and where to obtain it,       *)
(* whether or not the file exists, and so does every decoration asking for *)
(* YAML whose fixture file exists; a decoration asking for YAML whose      *)
(* fixture file does not exist ends in FileNotFoundError and calls no      *)
(* reader.                                                                 *)
(***************************************************************************)
C17_MissingYamlDependencyAfterExistence ==
    (YamlRequested /\ ~yaml) =>
        IF Decorated /\ ~last.existed
        THEN last.result.exc = "FileNotFoundError" /\ last.result.reader = "none"
        ELSE last.result.exc = "ImportError" /\ last.result.msg = PYYAML_REQUIRED

\* without PyYAML, a decoration with format auto of an existing file named
\* d.YAML ended in the ImportError
C17_Witness ==
    /\ Decorated
    /\ ~yaml
    /\ last.file_format = "auto"
    /\ last.fixture_name = D_YAML
    /\ last.existed
    /\ last.result.reader = "yaml"
    /\ last.result.exc = "ImportError"

\* a read by the JSON, JSON Lines or YAML reader that parsed at least one record
ReadRecords ==
    /\ Read
    /\ last.reader \in {"json", "jsonl", "yaml"}
    /\ Parsed(last.reader, last.file_path)
    /\ RecordsOf(last.reader, last.file_path) # <<>>

(***************************************************************************)
(* C18: when the records are mappings, the first has the field id and a    *)
(* later one has not, the JSON, JSON Lines and YAML readers fail with the  *)
(* ordinary key-set ValueError naming the file and return nothing: no      *)
(* identifier is filled in and no shorter identifier list is returned.     *)
(***************************************************************************)
C18_IdMissingLater ==
    LET recs == RecordsOf(last.reader, last.file_path)
    IN  (/\ ReadRecords
         /\ AllMappings(recs)
         /\ IdKey \in KeySet(recs[1].d)
         /\ \E k \in 2..Len(recs) : IdKey \notin KeySet(recs[k].d))
        => /\ last.result.exc = "ValueError"
           /\ last.result.msg = "must have the same keys"
           /\ last.result.file = last.file_path
           /\ last.result.ret = <<>>

\* two JSON Lines mappings, id and a then a alone, were rejected
C18_Witness ==
    /\ ReadRecords
    /\ last.reader = "jsonl"
    /\ LET recs == RecordsOf("jsonl", last.file_path)
       IN  /\ Len(recs) = 2
           /\ AllMappings(recs)
           /\ DictKeys(recs[1].d) = <<IdKey, <<"str", "a">> >>
           /\ DictKeys(recs[2].d) = << <<"str", "a">> >>
    /\ last.result.exc = "ValueError"
    /\ last.result.msg = "must have the same keys"

(***************************************************************************)
(* C19: the JSON, JSON Lines and YAML readers fail with ValueError when a  *)
(* record at any position is not a mapping, and the JSON and YAML readers  *)
(* fail with ValueError when the document is not a list, the empty YAML    *)
(* document included.                                                      *)
(***************************************************************************)
C19_NonMappingRecords ==
    /\ (ReadRecords /\ ~AllMappings(RecordsOf(last.reader, last.file_path)))
           => last.result.exc = "ValueError" /\ last.result.file = last.file_path
    /\ (/\ Read
        /\ FileOpens(last.file_path)
        /\ \/ last.reader = "json" /\ fs[last.file_path].json.kind = "other"
           \/ last.reader = "yaml" /\ yaml /\ fs[last.file_path].yaml.kind = "other")
           => /\ last.result.exc = "ValueError"
              /\ last.result.msg = "must contain a list of objects"
              /\ last.result.file = last.file_path

\* a YAML list of a mapping and then a value that is no mapping was rejected
C19_Witness ==
    /\ ReadRecords
    /\ last.reader = "yaml"
    /\ LET recs == RecordsOf("yaml", last.file_path)
       IN  Len(recs) = 2 /\ recs[1].isdict /\ ~recs[2].isdict
    /\ last.result.exc = "ValueError"
    /\ last.result.msg = "All items must be dictionaries"

ValueLines(file_path) ==
    LET held == SelectSeq(fs[file_path].jsonl, LAMBDA l : l.kind = "value")
    IN  [k \in 1..Len(held) |-> held[k].item]

(***************************************************************************)
(* C21: the JSON Lines reader takes exactly one record per non-blank line, *)
(* in line order: of a file whose non-blank lines all parse, it accepts    *)
(* or rejects the sequence of the values of the non-blank lines, and on    *)
(* success returns one row per non-blank line, in line order, wherever     *)
(* the blank lines stand.                                                  *)
(***************************************************************************)
C21_JsonlBlankLines ==
    (/\ Read
     /\ last.reader = "jsonl"
     /\ FileOpens(last.file_path)
     /\ \A i \in 1..Len(fs[last.file_path].jsonl) : fs[last.file_path].jsonl[i].kind # "error")
    => LET recs == ValueLines(last.file_path)
       IN  IF recs = <<>> THEN last.result.exc = "ValueError"
           ELSE IF ~AllMappings(recs) THEN last.result.exc = "ValueError"
           ELSE IF \E k \in 2..Len(recs) : KeySet(recs[k].d) # KeySet(recs[1].d)
           THEN last.result.exc = "ValueError"
           ELSE /\ last.result.exc = "none"
                /\ Len(last.result.ret[2]) = Len(recs)
                /\ \A k \in 1..Len(recs) :
                       last.result.ret[2][k] =
                           [i \in 1..Len(recs[1].d) |-> DictGet(recs[k].d, DictKeys(recs[1].d)[i])]

\* a value, a blank line and a value were read as two rows, in line order
C21_Witness ==
    /\ ReadOk
    /\ last.reader = "jsonl"
    /\ Len(fs[last.file_path].jsonl) = 3
    /\ fs[last.file_path].jsonl[2] = BlankLine
    /\ last.result.ret[2] = << <<Val(1, "a")>>, <<Val(3, "a")>> >>

(***************************************************************************)
(* C22: however a reader ends - with its result, a parse failure, an       *)
(* empty-record error, a non-mapping or a key-mismatch error - no file     *)
(* handle is open after the call; a reader opens at most one handle, and   *)
(* it opens one exactly when the file exists and, for YAML, PyYAML is      *)
(* present.                                                                *)
(***************************************************************************)
C22_HandleReleased ==
    Read =>
        /\ last.result.handles.left = 0
        /\ last.result.handles.opened <= 1
        /\ last.result.handles.opened = 1 <=>
               (FileOpens(last.file_path) /\ (last.reader = "yaml" => yaml))

\* a JSON file that does not parse was opened and closed
C22_Witness ==
    /\ Read
    /\ last.reader = "json"
    /\ last.result.exc = "JSONDecodeError"
    /\ last.result.handles = [opened |-> 1, left |-> 0]

\* the keyword arguments pytest.mark.parametrize received
MarkKwargs == last.result.pytestmark[1].kwargs

\* the mark holds the names and rows of the file
FromFile ==
    \E names \in NameLists(last.result.reader, FixtureFile) :
        /\ MarkKwargs.argnames = JoinNames(names)
        /\ MarkKwargs.argvalues = FileRows(last.result.reader, FixtureFile, names)

(***************************************************************************)
(* C23: every pass-through option reaches pytest.mark.parametrize with its *)
(* name and value, and the argnames and argvalues handed over are always   *)
(* those of the file, also when the caller gives options named argnames    *)
(* or argvalues.                                                           *)
(***************************************************************************)
C23_PassThrough ==
    DecoratedOk =>
        /\ \A k \in DOMAIN last.kwargs \ {"argnames", "argvalues"} :
               k \in DOMAIN MarkKwargs /\ MarkKwargs[k] = last.kwargs[k]
        /\ FromFile

(***************************************************************************)
(* C23 amended: pytest.mark.parametrize receives exactly the pass-through  *)
(* options and argnames and argvalues; every pass-through option arrives   *)
(* with its value, options named argnames or argvalues included, which so  *)
(* take the place of the names or rows of the file; an argnames or         *)
(* argvalues the caller did not give is that of the file.                  *)
(***************************************************************************)
C23_PassThroughOverrides ==
    DecoratedOk =>
        /\ DOMAIN MarkKwargs = DOMAIN last.kwargs \cup {"argnames", "argvalues"}
        /\ \A k \in DOMAIN last.kwargs : MarkKwargs[k] = last.kwargs[k]
        /\ \E names \in NameLists(last.result.reader, FixtureFile) :
               /\ "argnames" \notin DOMAIN last.kwargs => MarkKwargs.argnames = JoinNames(names)
               /\ "argvalues" \notin DOMAIN last.kwargs =>
                      MarkKwargs.argvalues = FileRows(last.result.reader, FixtureFile, names)

\* a decoration with the options argnames and argvalues marked the function
\* with the caller's names and values
C23_Witness ==
    /\ DecoratedOk
    /\ last.kwargs = [argnames |-> UserNames, argvalues |-> UserValues]
    /\ MarkKwargs = [argnames |-> UserNames, argvalues |-> UserValues]
    /\ last.result.reader = "csv"

\* the format tag a decoration works with: the given one, or under auto the
\* one of the extension
Tag == IF last.file_format = "auto" THEN ExtFormat(last.fixture_name) ELSE last.file_format

(***************************************************************************)
(* C24: a decoration checks in this order: under auto an extension that    *)
(* is not recognised is a ValueError whether or not the file exists; then  *)
(* a missing file is a FileNotFoundError, whatever the tag and whether or  *)
(* not PyYAML is present; then an unsupported tag is a ValueError; only    *)
(* then the reader of the tag is called.                                   *)
(***************************************************************************)
C24_OrderOfChecks ==
    Decorated =>
        IF last.file_format = "auto" /\ ExtFormat(last.fixture_name) = "none"
        THEN /\ last.result.exc = "ValueError"
             /\ last.result.msg = "Cannot auto-detect format"
             /\ last.result.reader = "none"
        ELSE IF ~last.existed
        THEN /\ last.result.exc = "FileNotFoundError"
             /\ last.result.reader = "none"
        ELSE IF Tag \notin {"csv", "json", "jsonl", "yaml"}
        THEN /\ last.result.exc = "ValueError"
             /\ last.result.msg = "Unsupported file format"
             /\ last.result.reader = "none"
        ELSE last.result.reader = Tag

\* without PyYAML, a decoration with the format yaml of a missing file ended
\* in FileNotFoundError
C24_Witness ==
    /\ Decorated
    /\ ~yaml
    /\ last.file_format = "yaml"
    /\ ~last.existed
    /\ last.result.exc = "FileNotFoundError"
    /\ last.result.reader = "none"

(***************************************************************************)
(* parametrize_from_fixture(fixture_name, ...) and the decorator it        *)
(* returns: the call only defines the inner function, which keeps the      *)
(* arguments; everything else runs when the decorator is applied.          *)
(***************************************************************************)
\* a call that looks for the file at once
Mut_parametrize_from_fixture_eager(fixture_name, file_format, encoding, fixtures_dir, kwargs) ==
    [exc |-> IF Exists(FixturePath(_get_fixtures_path(fixtures_dir), fixture_name))
             THEN "none" ELSE "FileNotFoundError",
     fixture_name |-> fixture_name, file_format |-> file_format, encoding |-> encoding,
     fixtures_dir |-> fixtures_dir, kwargs |-> kwargs]

parametrize_from_fixture(fixture_name, file_format, encoding, fixtures_dir, kwargs) ==
    [exc |-> "none",
     fixture_name |-> fixture_name, file_format |-> file_format, encoding |-> encoding,
     fixtures_dir |-> fixtures_dir, kwargs |-> kwargs]

MaxApply == 2

\* dec = parametrize_from_fixture(fixture_name, file_format=..., ...)
MakeDecorator(fixture_name, file_format, fixtures_dir, kwargs) ==
    /\ last' = [op |-> "call", made_in |-> cwd, times |-> 0,
                closure |-> parametrize_from_fixture(fixture_name, file_format, "utf-8",
                                                     fixtures_dir, kwargs)]
    /\ UNCHANGED <<cwd, environ, fs, yaml>>

\* dec(test_func), for the decorator last made, on a function without marks
ApplyDecorator ==
    /\ last.op \in {"call", "apply"}
    /\ last.closure.exc = "none"
    /\ last.times < MaxApply
    /\ last' = [op |-> "apply", made_in |-> last.made_in, times |-> last.times + 1,
                closure |-> last.closure, cwd |-> cwd, seen |-> fs,
                result |-> decorator(last.closure.fixture_name, last.closure.file_format,
                                     last.closure.encoding, last.closure.fixtures_dir,
                                     last.closure.kwargs)]
    /\ UNCHANGED <<cwd, environ, fs, yaml>>

\* the test process rewrites a fixture file
WriteFile(file_path, content) ==
    /\ file_path \in DOMAIN fs
    /\ content # fs[file_path]
    /\ fs' = [fs EXCEPT ![file_path] = content]
    /\ UNCHANGED <<cwd, environ, yaml, last>>

DefaultDir2 == <<"/", "w2", "tests", "fixtures">>

DeferContents == {CsvNoId, CsvWithId, CsvHeaderOnly}

InitDefer ==
    /\ cwd \in {W1, W2}
    /\ environ = [v \in {ENV_VAR} |-> Unset]
    /\ fs \in [{FixturePath(DefaultDir1, T_CSV), FixturePath(DefaultDir2, T_CSV)} -> DeferContents]
    /\ yaml = TRUE
    /\ last = NoCall

NextDefer ==
    \/ \E fixture_name \in {T_CSV, T_XYZ}, file_format \in {"auto", "csv", "xml"} :
           MakeDecorator(fixture_name, file_format, None, NoKwargs)
    \/ ApplyDecorator
    \/ \E d \in WorkDirs : Chdir(d)
    \/ \E file_path \in DOMAIN fs, content \in DeferContents : WriteFile(file_path, content)

SpecDefer == InitDefer /\ [][NextDefer]_vars

\* the rows of a CSV content whose data rows are as long as its header
TextRows(content) ==
    LET data == SelectSeq(Tail(content.csv.rows), LAMBDA row : row # <<>>)
    IN  [k \in 1..Len(data) |-> [i \in 1..Len(data[k]) |-> <<"str", data[k][i]>>]]

(***************************************************************************)
(* C25: the call parametrize_from_fixture(name, ...) raises nothing and    *)
(* only keeps its arguments; each application of the returned decorator    *)
(* resolves the directory from the working directory of that moment,       *)
(* detects the format, checks that the file exists then and reads the      *)
(* content the file has then.                                              *)
(***************************************************************************)
C25_DeferredToDecoration ==
    /\ last.op = "call" => last.closure.exc = "none"
    /\ last.op = "apply" =>
           LET dir  == last.cwd \o <<"tests", "fixtures">>
               name == last.closure.fixture_name
               tag  == IF last.closure.file_format = "auto" THEN ExtFormat(name)
                       ELSE last.closure.file_format
           IN  /\ last.result.fixtures_path = dir
               /\ IF tag = "none" THEN last.result.exc = "ValueError"
                  ELSE IF FixturePath(dir, name) \notin DOMAIN last.seen
                  THEN last.result.exc = "FileNotFoundError"
                  ELSE IF tag # "csv" THEN last.result.exc = "ValueError"
                  ELSE IF TextRows(last.seen[FixturePath(dir, name)]) = <<>>
                  THEN last.result.exc = "ValueError" /\ last.result.msg = "has no data rows"
                  ELSE /\ last.result.exc = "none"
                       /\ last.result.pytestmark[1].kwargs.argvalues =
                              TextRows(last.seen[FixturePath(dir, name)])

\* a decorator made in /w1 was applied a second time, in /w2, and read the
\* file of /w2 as it was then
C25_Witness ==
    /\ last.op = "apply"
    /\ last.times = 2
    /\ last.made_in = W1
    /\ last.cwd = W2
    /\ last.result.fixtures_path = DefaultDir2
    /\ last.result.exc = "none"
    /\ last.seen[FixturePath(DefaultDir2, T_CSV)] # last.seen[FixturePath(DefaultDir1, T_CSV)]
====
